---- MODULE Spec2Model ----
(***************************************************************************)
(* MOTOAI car recommender: model of the inference service (src/app.py)     *)
(* and of the bundle the trainer persists (src/model.py).                  *)
(*                                                                         *)
(* Text is modelled as sequences of one-character strings so that          *)
(* str.strip and str.lower are computed, not assumed.  Two characters that *)
(* are not ASCII are written by name: "RUPEE" is U+20B9 and "ENDASH" is    *)
(* U+2013.                                                                 *)
(***************************************************************************)
EXTENDS Integers, Sequences, FiniteSets, TLC

(***************************************************************************)
(* Bounds of the exploration.                                              *)
(***************************************************************************)
\* Largest number of distinct car names in the training data.
MaxCars == 4
\* Probabilities are multiples of 1/ProbDen.
ProbDen == 3
\* Largest number of fields a JSON object in a request carries.
MaxSupplied == 2
\* Longest sequence of requests sent to one run of the service.
MaxRequests == 2
\* Number of threads that handle requests side by side.
MaxThreads == 2

(***************************************************************************)
(* Characters and Python's str methods.                                    *)
(***************************************************************************)
UpperCase == <<"A","B","C","D","E","F","G","H","I","J","K","L","M",
               "N","O","P","Q","R","S","T","U","V","W","X","Y","Z">>
LowerCase == <<"a","b","c","d","e","f","g","h","i","j","k","l","m",
               "n","o","p","q","r","s","t","u","v","w","x","y","z">>
\* The characters the model uses, in code-point order.
Alphabet == <<"\t", "\n", " ", "+">> \o <<"0","1","2","3","4","5","6","7","8","9">>
            \o UpperCase \o <<"_">> \o LowerCase \o <<"ENDASH", "RUPEE">>
Whitespace == {"\t", "\n", " "}

Ord(c) == CHOOSE i \in 1..Len(Alphabet) : Alphabet[i] = c

\* str.lower on one character.
LowerChar(c) ==
    IF \E i \in 1..Len(UpperCase) : UpperCase[i] = c
    THEN LowerCase[CHOOSE i \in 1..Len(UpperCase) : UpperCase[i] = c]
    ELSE c

\* A handler that forgets .lower().
lower_forgotten(s) == s

\* str.lower
lower(s) == [i \in 1..Len(s) |-> LowerChar(s[i])]

RECURSIVE lstrip(_)
lstrip(s) == IF s # <<>> /\ Head(s) \in Whitespace THEN lstrip(Tail(s)) ELSE s

RECURSIVE rstrip(_)
rstrip(s) ==
    IF s # <<>> /\ s[Len(s)] \in Whitespace
    THEN rstrip(SubSeq(s, 1, Len(s) - 1))
    ELSE s

\* str.strip
strip(s) == rstrip(lstrip(s))

\* Python's order on str: lexicographic by code point.
RECURSIVE StrLess(_, _)
StrLess(a, b) ==
    IF b = <<>> THEN FALSE
    ELSE IF a = <<>> THEN TRUE
    ELSE IF Head(a) # Head(b) THEN Ord(Head(a)) < Ord(Head(b))
    ELSE StrLess(Tail(a), Tail(b))

(***************************************************************************)
(* String literals of the source.                                          *)
(***************************************************************************)
s_suv == <<"s","u","v">>
s_sedan == <<"s","e","d","a","n">>
s_hatchback == <<"h","a","t","c","h","b","a","c","k">>
s_hatch == <<"h","a","t","c","h">>
s_electric == <<"e","l","e","c","t","r","i","c">>
s_ev == <<"e","v">>
s_luxury == <<"l","u","x","u","r","y">>
s_muv == <<"m","u","v">>
s_mpv == <<"m","p","v">>
s_petrol == <<"p","e","t","r","o","l">>
s_diesel == <<"d","i","e","s","e","l">>
s_cng == <<"c","n","g">>
s_hybrid == <<"h","y","b","r","i","d">>
s_Lakh == <<" ","L","a","k","h">>
s_Under6 == <<"U","n","d","e","r"," ","RUPEE","6">> \o s_Lakh
s_6to10 == <<"RUPEE","6","ENDASH","1","0">> \o s_Lakh
s_10to15 == <<"RUPEE","1","0","ENDASH","1","5">> \o s_Lakh
s_15to25 == <<"RUPEE","1","5","ENDASH","2","5">> \o s_Lakh
s_25to50 == <<"RUPEE","2","5","ENDASH","5","0">> \o s_Lakh
s_50plus == <<"RUPEE","5","0">> \o s_Lakh \o <<"+">>
s_under_6l == <<"u","n","d","e","r","_","6","l">>
s_6l_10l == <<"6","l","_","1","0","l">>
s_10l_15l == <<"1","0","l","_","1","5","l">>
s_15l_25l == <<"1","5","l","_","2","5","l">>
s_25l_50l == <<"2","5","l","_","5","0","l">>
s_Seats == <<" ","S","e","a","t","s">>
s_5Seats == <<"5">> \o s_Seats
s_7Seats == <<"7">> \o s_Seats
s_7plusSeats == <<"7","+">> \o s_Seats
s_5 == <<"5">>
s_7 == <<"7">>
s_safety == <<"s","a","f","e","t","y">>
s_comfort == <<"c","o","m","f","o","r","t">>
s_performance == <<"p","e","r","f","o","r","m","a","n","c","e">>
s_value == <<"v","a","l","u","e">>
s_default == <<"d","e","f","a","u","l","t">>

(***************************************************************************)
(* Lookup tables, as sets of <<key, value>> pairs, and dict.get.           *)
(***************************************************************************)
BODY_MAP ==
    { <<s_suv, s_suv>>, <<s_sedan, s_sedan>>, <<s_hatchback, s_hatchback>>,
      <<s_hatch, s_hatchback>>, <<s_electric, s_electric>>, <<s_ev, s_electric>>,
      <<s_luxury, s_luxury>>, <<s_muv, s_suv>>, <<s_mpv, s_suv>> }

FUEL_MAP ==
    { <<s_petrol, s_petrol>>, <<s_diesel, s_diesel>>, <<s_electric, s_electric>>,
      <<s_cng, s_cng>>, <<s_hybrid, s_petrol>> }

BUDGET_MAP ==
    { <<s_Under6, s_under_6l>>, <<s_6to10, s_6l_10l>>, <<s_10to15, s_10l_15l>>,
      <<s_15to25, s_15l_25l>>, <<s_25to50, s_25l_50l>>, <<s_50plus, s_25l_50l>>,
      <<s_under_6l, s_under_6l>>, <<s_6l_10l, s_6l_10l>>, <<s_10l_15l, s_10l_15l>>,
      <<s_15l_25l, s_15l_25l>>, <<s_25l_50l, s_25l_50l>> }

SEATING_MAP ==
    { <<s_5Seats, 5>>, <<s_7Seats, 7>>, <<s_7plusSeats, 7>>, <<s_5, 5>>, <<s_7, 7>> }

\* dict.get(key, default) on a table of pairs.
DictGet(map, key, default) ==
    IF \E p \in map : p[1] = key
    THEN (CHOOSE p \in map : p[1] = key)[2]
    ELSE default

\* The table built in predict: safety, comfort, performance, value.
priority_ratings ==
    { <<s_safety, <<9, 7, 7, 7>> >>, <<s_comfort, <<7, 9, 7, 7>> >>,
      <<s_performance, <<7, 7, 9, 7>> >>, <<s_value, <<7, 7, 7, 9>> >>,
      <<s_default, <<8, 8, 8, 8>> >> }

(***************************************************************************)
(* JSON values as request.get_json returns them.  A value is a record of   *)
(* its type t and its text v; an object also has its fields, a value each  *)
(* for the five keys the handler reads (other keys are never read).        *)
(***************************************************************************)
Fields == {"body", "fuel", "budget", "seating", "priority"}

\* The values a field can hold: null, a string, a number (by its digits), a
\* list (by its JSON text), or no value at all when the key is missing.
JAbsent == [t |-> "absent", v |-> <<>>]
JNull == [t |-> "null", v |-> <<>>]
JStr(s) == [t |-> "str", v |-> s]
JNum(digits) == [t |-> "num", v |-> digits]
JList(text) == [t |-> "list", v |-> text]

NoFields == [k \in Fields |-> JAbsent]
\* A parsed body that is no object: null, a string, a number or a list.
Scalar(x) == [t |-> x.t, v |-> x.v, fields |-> NoFields]
\* A parsed body that is an object with the fields f.
JObj(f) == [t |-> "obj", v |-> <<>>, fields |-> f]

\* Python truth value, as the operator `or` tests it.
Truthy(x) ==
    CASE x.t = "null" -> FALSE
      [] x.t = "str" -> x.v # <<>>
      [] x.t = "num" -> x.v # <<"0">>
      [] x.t = "list" -> x.v # <<"[", "]">>

\* A computation either returns a value or raises.
Return(x) == [ok |-> TRUE, val |-> x]
Raise(type, obj, what) == [ok |-> FALSE, exc |-> <<type, obj, what>>]

\* request.get_json(force=True): the parsed body, or BadRequest.
get_json(raw) ==
    IF raw.kind = "json" THEN Return(raw.value) ELSE Raise("BadRequest", "body", "not JSON")

\* data.get(key): None for a missing key; only a dict has the method.
DataGet(data, key) ==
    IF data.t # "obj" THEN Raise("AttributeError", data.t, "get")
    ELSE IF data.fields[key].t # "absent" THEN Return(data.fields[key])
    ELSE Return(JNull)

\* (data.get(key) or default).strip(), before any case folding.
StripField(data, key, default) ==
    LET got == DataGet(data, key) IN
    IF ~got.ok THEN got
    ELSE LET x == IF Truthy(got.val) THEN got.val ELSE JStr(default) IN
         IF x.t # "str" THEN Raise("AttributeError", x.t, "strip")
         ELSE Return(strip(x.v))

\* (data.get(key) or default).strip().lower()
StripLowerField(data, key, default) ==
    LET r == StripField(data, key, default) IN
    IF r.ok THEN Return(lower(r.val)) ELSE r

\* A handler that falls back to the "value" ratings.
RatingsOf_value(priority) ==
    DictGet(priority_ratings, priority, DictGet(priority_ratings, s_value, <<>>))

\* priority_ratings.get(priority, priority_ratings["default"])
RatingsOf(priority) ==
    DictGet(priority_ratings, priority, DictGet(priority_ratings, s_default, <<>>))

\* The "Parse & normalise inputs" block of predict: the five raw strings in
\* statement order, then the four table lookups.
Normalise(data) ==
    LET raw_body == StripLowerField(data, "body", s_suv)
        raw_fuel == StripLowerField(data, "fuel", s_petrol)
        raw_budget == StripField(data, "budget", s_10to15)
        raw_seating == StripField(data, "seating", s_5Seats)
        priority == StripLowerField(data, "priority", s_value)
    IN  IF ~raw_body.ok THEN raw_body
        ELSE IF ~raw_fuel.ok THEN raw_fuel
        ELSE IF ~raw_budget.ok THEN raw_budget
        ELSE IF ~raw_seating.ok THEN raw_seating
        ELSE IF ~priority.ok THEN priority
        ELSE Return([body_val |-> DictGet(BODY_MAP, raw_body.val, s_suv),
                     fuel_val |-> DictGet(FUEL_MAP, raw_fuel.val, s_petrol),
                     budget_val |-> DictGet(BUDGET_MAP, raw_budget.val, s_10l_15l),
                     seating_val |-> DictGet(SEATING_MAP, raw_seating.val, 5),
                     priority |-> priority.val])

(***************************************************************************)
(* sklearn's LabelEncoder, as the trainer fits it and the service uses it. *)
(***************************************************************************)
\* The least string of a non-empty set.
MinStr(S) == CHOOSE a \in S : \A b \in S : a = b \/ StrLess(a, b)

\* LabelEncoder.fit: classes_ is the sorted sequence of the distinct values.
RECURSIVE fit(_)
fit(S) == IF S = {} THEN <<>> ELSE <<MinStr(S)>> \o fit(S \ {MinStr(S)})

\* LabelEncoder.transform([value])[0]: ValueError on an unseen label.
transform(classes, value) ==
    IF \E i \in 1..Len(classes) : classes[i] = value
    THEN Return((CHOOSE i \in 1..Len(classes) : classes[i] = value) - 1)
    ELSE Raise("ValueError", "y", "unseen label")

\* LabelEncoder.inverse_transform([idx])[0]: ValueError outside the codes.
inverse_transform(classes, idx) ==
    IF idx \in 0..(Len(classes) - 1)
    THEN Return(classes[idx + 1])
    ELSE Raise("ValueError", "y", "unseen label")

\* A fallback of -1 instead of 0.
safe_encode_minus1(classes, value) ==
    LET r == transform(classes, value) IN
    IF r.ok THEN r.val ELSE 0 - 1

\* try: return encoder.transform([value])[0]; except ValueError: return 0
safe_encode(classes, value) ==
    LET r == transform(classes, value) IN
    IF r.ok THEN r.val ELSE 0

\* The 8 numbers handed to the classifier, in training column order.
FeatureVector(encs, nf) ==
    LET ratings == RatingsOf(nf.priority) IN
    << safe_encode(encs.body_type, nf.body_val),
       safe_encode(encs.fuel_type, nf.fuel_val),
       safe_encode(encs.budget, nf.budget_val),
       nf.seating_val,
       ratings[1], ratings[2], ratings[3], ratings[4] >>

(***************************************************************************)
(* The classifier and the ranking.                                         *)
(***************************************************************************)
RECURSIVE SumSeq(_)
SumSeq(q) == IF q = <<>> THEN 0 ELSE Head(q) + SumSeq(Tail(q))

\* The distributions over n classes, each probability a multiple of 1/ProbDen.
Dists(n) == { d \in [1..n -> 0..ProbDen] : SumSeq(d) = ProbDen }

\* clf.predict_proba(feature_vector)[0].  A fitted forest is a fixed function
\* from feature vectors to distributions over the classes it was trained on;
\* the family explored is a base distribution shifted by the feature sum.
\* It rejects an input whose width is not the one it was fitted on.
predict_proba(model, fv) ==
    IF Len(fv) # model.n_features
    THEN Raise("ValueError", "X", "number of features")
    ELSE Return([i \in 1..model.n_classes |->
                    model.base[((i - 1 + SumSeq(fv)) % model.n_classes) + 1]])

\* Whether class index i sorts before j in np.argsort(proba).  The default
\* kind is not a stable sort: where equal elements land is fixed by the numpy
\* build (ties), not by the call.
SortsBefore(proba, ties, i, j) ==
    \/ proba[i + 1] < proba[j + 1]
    \/ /\ proba[i + 1] = proba[j + 1]
       /\ IF ties = "stable" THEN i < j ELSE j < i

\* np.argsort(proba): the class indices (from 0) in ascending probability.
argsort(proba, ties) ==
    LET n == Len(proba)
        rank(i) == Cardinality({ j \in 0..(n - 1) : SortsBefore(proba, ties, j, i) })
    IN  [k \in 1..n |-> CHOOSE i \in 0..(n - 1) : rank(i) = k - 1]

\* A ranking that forgets [::-1].
Reversed_forgotten(q) == q

\* q[::-1]
Reversed(q) == [k \in 1..Len(q) |-> q[Len(q) + 1 - k]]

\* q[:3]
First3(q) == SubSeq(q, 1, IF Len(q) < 3 THEN Len(q) ELSE 3)

\* np.argsort(proba)[::-1][:3]
Top3Idx(proba, ties) == First3(Reversed(argsort(proba, ties)))

\* round(num / den) to the nearest integer, halves to the even neighbour.
RoundHalfEven(num, den) ==
    LET q == num \div den
        r == num % den
    IN  IF 2 * r < den THEN q
        ELSE IF 2 * r > den THEN q + 1
        ELSE IF q % 2 = 0 THEN q ELSE q + 1

\* round(float(p) * 100, 1), in tenths of a percent; p in units of 1/ProbDen.
Confidence(p) == RoundHalfEven(p * 1000, ProbDen)

\* The loop over top3_idx: decode each index and attach its confidence.
RECURSIVE Top3Cars(_, _, _)
Top3Cars(target_le, proba, idxs) ==
    IF idxs = <<>> THEN Return(<<>>)
    ELSE LET car == inverse_transform(target_le, Head(idxs))
             rest == Top3Cars(target_le, proba, Tail(idxs))
         IN  IF ~car.ok THEN car
             ELSE IF ~rest.ok THEN rest
             ELSE Return(<<[car |-> car.val,
                            confidence |-> Confidence(proba[Head(idxs) + 1])]>>
                         \o rest.val)

\* An except clause that forgets the status 500.
ErrorResponse_200(exc) == [code |-> 200, status |-> "error", message |-> exc]

\* jsonify({"status": "error", "message": str(e)}), 500
ErrorResponse(exc) == [code |-> 500, status |-> "error", message |-> exc]

\* jsonify(response), with the implicit status 200.
SuccessResponse(nf, top3_cars) ==
    [code |-> 200, status |-> "success",
     recommended_car |-> top3_cars[1].car,
     confidence |-> top3_cars[1].confidence,
     top3 |-> top3_cars,
     inputs |-> [body |-> nf.body_val, fuel |-> nf.fuel_val,
                 budget |-> nf.budget_val, seating |-> nf.seating_val,
                 priority |-> nf.priority]]

\* The handler of POST /predict, from the raw body to the response, with
\* the locals it had bound when it returned.  b holds the globals it reads.
RunPredict(raw, b, numpyTies) ==
    LET data == get_json(raw) IN
    IF ~data.ok
    THEN [locals |-> [stage |-> "get_json"], response |-> ErrorResponse(data.exc)]
    ELSE LET nf == Normalise(data.val) IN
    IF ~nf.ok
    THEN [locals |-> [stage |-> "normalise", data |-> data.val],
          response |-> ErrorResponse(nf.exc)]
    ELSE LET fv == FeatureVector(b.encoders, nf.val)
             p == predict_proba(b.model, fv)
         IN
    IF ~p.ok
    THEN [locals |-> [stage |-> "classify", data |-> data.val, nf |-> nf.val,
                      feature_vector |-> fv],
          response |-> ErrorResponse(p.exc)]
    ELSE LET proba == p.val
             top3_idx == Top3Idx(proba, numpyTies)
             cars == Top3Cars(b.encoders.recommended_car, proba, top3_idx)
             bound == [stage |-> "rank", data |-> data.val, nf |-> nf.val,
                       feature_vector |-> fv, proba |-> proba,
                       top3_idx |-> top3_idx]
         IN  IF ~cars.ok
             THEN [locals |-> bound, response |-> ErrorResponse(cars.exc)]
             ELSE [locals |-> [bound EXCEPT !.stage = "respond"],
                   response |-> SuccessResponse(nf.val, cars.val)]

\* What POST /predict answers.
predict(raw, b, numpyTies) == RunPredict(raw, b, numpyTies).response

(***************************************************************************)
(* The trainer (src/model.py) and the training data it may be given.       *)
(***************************************************************************)
c_alto == <<"A","l","t","o">>
c_baleno == <<"B","a","l","e","n","o">>
c_creta == <<"C","r","e","t","a">>
c_dzire == <<"D","z","i","r","e">>
c_ertiga == <<"E","r","t","i","g","a">>
c_fortuner == <<"F","o","r","t","u","n","e","r">>
CarNames == <<c_ertiga, c_alto, c_dzire, c_baleno, c_fortuner, c_creta>>

BodyValues == {s_suv, s_sedan, s_hatchback, s_electric, s_luxury}
FuelValues == {s_petrol, s_diesel, s_electric, s_cng}
BudgetValues == {s_under_6l, s_6l_10l, s_10l_15l, s_15l_25l, s_25l_50l}

\* The distinct values of the three categorical columns of cars.csv: every
\* canonical value, or one column missing one value.
FullColumns == [body_type |-> BodyValues, fuel_type |-> FuelValues, budget |-> BudgetValues]
ColumnChoices ==
    {FullColumns}
    \cup { [FullColumns EXCEPT !.body_type = @ \ {x}] : x \in BodyValues }
    \cup { [FullColumns EXCEPT !.fuel_type = @ \ {x}] : x \in FuelValues }
    \cup { [FullColumns EXCEPT !.budget = @ \ {x}] : x \in BudgetValues }

\* The training column order (feature_cols of train_and_save).
FeatureCols ==
    << "body_type_enc", "fuel_type_enc", "budget_enc", "seating",
       "safety", "comfort", "performance", "value" >>

\* The bundle train_and_save pickles.  cols: the categorical columns' values;
\* cars: the distinct car names; n: how many of them the training split
\* holds (clf.classes_); d: the distribution the fitted forest is built on.
TrainedBundle(cols, cars, n, d) ==
    [model |-> [n_features |-> Len(FeatureCols), n_classes |-> n, base |-> d],
     encoders |-> [body_type |-> fit(cols.body_type),
                   fuel_type |-> fit(cols.fuel_type),
                   budget |-> fit(cols.budget),
                   recommended_car |-> fit(cars)],
     feature_cols |-> FeatureCols]

(***************************************************************************)
(* Requests.                                                               *)
(***************************************************************************)
s_blank == <<" ">>
s_SUV_padded == <<" ","S","U","V"," ">>
s_EV == <<"E","V">>
s_pickup == <<"p","i","c","k","u","p">>
s_Hybrid == <<"H","y","b","r","i","d">>
s_6l_10l_padded == <<" ">> \o s_6l_10l
s_10to15_lower == <<"RUPEE","1","0","ENDASH","1","5"," ","l","a","k","h">>
s_7_padded == <<" ","7","\t">>
s_2Seats == <<"2">> \o s_Seats
s_Safety == <<"S","a","f","e","t","y">>
s_PERFORMANCE == <<"P","E","R","F","O","R","M","A","N","C","E","\n">>
s_speed == <<"s","p","e","e","d">>

\* The values a request may carry in each field.
FieldValues(k) ==
    CASE k = "body" ->
            { JNull, JStr(<<>>), JStr(s_blank), JStr(s_SUV_padded), JStr(s_EV),
              JStr(s_pickup), JNum(<<"5">>) }
      [] k = "fuel" ->
            { JStr(<<>>), JStr(s_Hybrid), JStr(s_cng), JList(<<"[", "1", "]">>) }
      [] k = "budget" ->
            { JNull, JStr(s_50plus), JStr(s_6l_10l_padded), JStr(s_10to15_lower) }
      [] k = "seating" ->
            { JStr(s_blank), JStr(s_7plusSeats), JStr(s_7_padded), JStr(s_2Seats),
              JNum(<<"0">>) }
      [] k = "priority" ->
            { JNull, JStr(s_blank), JStr(s_Safety), JStr(s_comfort),
              JStr(s_PERFORMANCE), JStr(s_value), JStr(s_default), JStr(s_speed),
              JList(<<"[", "]">>) }

\* The fields an object carries.
Supplied(f) == { k \in Fields : f[k].t # "absent" }

\* The JSON objects that carry at most n of the five fields.
JsonObjects(n) ==
    { JObj(f) : f \in
        { g \in { [body |-> b, fuel |-> u, budget |-> g, seating |-> e, priority |-> p] :
                    b \in FieldValues("body") \cup {JAbsent},
                    u \in FieldValues("fuel") \cup {JAbsent},
                    g \in FieldValues("budget") \cup {JAbsent},
                    e \in FieldValues("seating") \cup {JAbsent},
                    p \in FieldValues("priority") \cup {JAbsent} } :
            Cardinality(Supplied(g)) <= n } }

\* A request body: bytes that are not JSON, or the JSON value they parse to.
NotJson == [kind |-> "invalid", value |-> Scalar(JNull)]
Json(x) == [kind |-> "json", value |-> x]

\* Request bodies: bytes that are not JSON, JSON that is not an object, and
\* objects with at most n fields.
RawBodies(n) ==
    { NotJson }
    \cup { Json(Scalar(x)) : x \in { JNull, JList(<<"[", "]">>), JNum(<<"7">>), JStr(s_suv) } }
    \cup { Json(x) : x \in JsonObjects(n) }

PredictRequest(raw) == [route |-> "/predict", raw |-> raw]
\* GET /health carries no body.
HealthRequest == [route |-> "/health", raw |-> NotJson]

\* {}
EmptyObject == Json(JObj(NoFields))
\* {"body": "SUV", "fuel": "Petrol", "budget": "RUPEE10ENDASH15 Lakh",
\*  "seating": "5 Seats", "priority": "safety"}
SafetyObject ==
    Json(JObj([body |-> JStr(<<"S","U","V">>),
               fuel |-> JStr(<<"P","e","t","r","o","l">>),
               budget |-> JStr(s_10to15), seating |-> JStr(s_5Seats),
               priority |-> JStr(s_safety)]))
\* {"body": 5}
NumberObject == Json(JObj([NoFields EXCEPT !["body"] = JNum(<<"5">>)]))

\* The sequences over S of length 1..n.
RECURSIVE SeqsUpTo(_, _)
SeqsUpTo(S, n) ==
    IF n = 0 THEN {}
    ELSE { <<x>> : x \in S }
         \cup { <<x>> \o q : x \in S, q \in SeqsUpTo(S, n - 1) }

\* Workloads: one request of any explored shape ...
SingleWorkloads(n) == { <<PredictRequest(r)>> : r \in RawBodies(n) }
\* ... or a sequence of a few chosen ones.
SequenceRequests ==
    { HealthRequest, PredictRequest(NotJson), PredictRequest(EmptyObject),
      PredictRequest(SafetyObject), PredictRequest(NumberObject) }
SequenceWorkloads == SeqsUpTo(SequenceRequests, MaxRequests)

\* Training data: the categorical columns' distinct values, the distinct car
\* names, how many of the names the training split holds (clf.classes_), and
\* the distribution the fitted forest is built on.
Csv(cols, m, n, d) ==
    [columns |-> cols, cars |-> { CarNames[i] : i \in 1..m }, n_train |-> n, base |-> d]

\* Training sets in which every canonical value occurs: any number of cars,
\* any number of them in the training split, any distribution.
RankCsvs ==
    UNION { IF n <= m THEN { Csv(FullColumns, m, n, d) : d \in Dists(n) } ELSE {} :
            m \in 1..MaxCars, n \in 1..MaxCars }

\* ProbDen spread over n classes as evenly as it goes.
EvenDist(n) == [i \in 1..n |-> (ProbDen \div n) + (IF i <= ProbDen % n THEN 1 ELSE 0)]

\* Training sets in which one categorical column misses one value.
VocabCsvs == { Csv(cols, 2, 2, EvenDist(2)) : cols \in ColumnChoices \ {FullColumns} }

\* Three training sets used with the wide request sets.
FewCsvs ==
    { Csv(FullColumns, MaxCars, MaxCars, EvenDist(MaxCars)),
      Csv(FullColumns, 2, 1, EvenDist(1)),
      Csv([FullColumns EXCEPT !.body_type = @ \ {s_suv}], 2, 2, EvenDist(2)) }

\* Three requests used with the wide training sets.
ProbeWorkloads ==
    { <<PredictRequest(EmptyObject)>>, <<PredictRequest(SafetyObject)>>,
      <<PredictRequest(Json(JObj([NoFields EXCEPT !["seating"] = JStr(s_7plusSeats)])))>> }

(***************************************************************************)
(* The service process.                                                    *)
(***************************************************************************)
VARIABLES
    carsCsv,       \* the training data at CSV_PATH
    modelFile,     \* what lies at MODEL_PATH
    ties,          \* the numpy build: where argsort puts equal elements
    phase,         \* position of app.py's module code
    bundle,        \* the global `bundle` (the unpickled object), or NoBundle
    clf, encoders, feature_cols,   \* the globals bound from it, or Unbound
    routes,        \* the URL rules registered on `app`
    inbox,         \* the requests still to arrive, in order
    threads,       \* the request threads: position and locals of each
    log            \* the requests answered, each with its response

vars == << carsCsv, modelFile, ties, phase, bundle, clf, encoders, feature_cols,
           routes, inbox, threads, log >>

NoBundle == [kind |-> "none"]
Unbound == [kind |-> "unbound"]
Idle == [pc |-> "idle"]
Threads == 1..MaxThreads

BundleKeys == {"model", "encoders", "feature_cols"}

\* A dict restricted to some of its keys.
Restrict(f, K) == [k \in K |-> f[k]]

\* The bundle train_and_save pickles from the training data.
BundleOf(csv) == TrainedBundle(csv.columns, csv.cars, csv.n_train, csv.base)

\* Files at MODEL_PATH that the trainer did not write: none, bytes that do
\* not unpickle, and a pickled dict that lacks one of the three keys.
ForeignFiles ==
    { [kind |-> "missing"], [kind |-> "garbage"] }
    \cup { [kind |-> "pickle",
            obj |-> Restrict(BundleOf(Csv(FullColumns, 2, 1, EvenDist(1))),
                             BundleKeys \ {k})] : k \in BundleKeys }

\* The inputs of a run: training data, the file found at MODEL_PATH, the
\* numpy build and the requests that will arrive.
Inputs(csvs, files, workloads) ==
    /\ carsCsv \in csvs
    /\ modelFile \in files
    /\ inbox \in workloads
    /\ ties \in {"stable", "reversed"}

\* The state before app.py is imported.
Stopped ==
    /\ phase = "start"
    /\ bundle = NoBundle
    /\ clf = Unbound
    /\ encoders = Unbound
    /\ feature_cols = Unbound
    /\ routes = {}
    /\ threads = [t \in Threads |-> Idle]
    /\ log = <<>>

\* Files the trainer of this repository did not write although they unpickle
\* to a dict with the three keys: a forest fitted on one column less, and a
\* target encoder that knows fewer cars than the forest has classes.
MismatchedFiles ==
    LET b == BundleOf(Csv(FullColumns, 2, 2, EvenDist(2))) IN
    { [kind |-> "pickle",
       obj |-> [b EXCEPT !.model.n_features = @ - 1]],
      [kind |-> "pickle",
       obj |-> [b EXCEPT !.encoders.recommended_car = SubSeq(@, 1, 1)]] }

Init ==
    /\ Stopped
    /\ \/ Inputs(RankCsvs, {[kind |-> "missing"]}, ProbeWorkloads)
       \/ Inputs(VocabCsvs, {[kind |-> "missing"]}, SingleWorkloads(1))
       \/ Inputs(FewCsvs, {[kind |-> "missing"]}, SingleWorkloads(MaxSupplied))
       \/ Inputs(FewCsvs, ForeignFiles, SequenceWorkloads)

\* model.py: fit the encoders and the forest, pickle the bundle to MODEL_PATH.
\* Run before the service starts.
train_and_save ==
    /\ phase = "start"
    /\ modelFile' = [kind |-> "pickle", obj |-> BundleOf(carsCsv)]
    /\ UNCHANGED << carsCsv, ties, phase, bundle, clf, encoders, feature_cols,
                    routes, inbox, threads, log >>

\* A load that reads the keys with dict.get and so survives a missing one.
LoadSucceeds_anyPickle(file) == file.kind = "pickle"

\* Whether the module code of app.py lines 19-26 runs to its end on a file.
LoadSucceeds(file) ==
    /\ file.kind = "pickle"
    /\ BundleKeys \subseteq DOMAIN file.obj

\* app.py lines 19-26: open, unpickle, bind the three globals in order.  Any
\* exception here is uncaught and ends the import of the module.
LoadBundle ==
    /\ phase = "start"
    /\ IF modelFile.kind # "pickle"
       THEN UNCHANGED << bundle, clf, encoders, feature_cols >>
       ELSE /\ bundle' = modelFile.obj
            /\ clf' = IF "model" \in DOMAIN modelFile.obj
                      THEN modelFile.obj.model ELSE Unbound
            /\ encoders' = IF {"model", "encoders"} \subseteq DOMAIN modelFile.obj
                           THEN modelFile.obj.encoders ELSE Unbound
            /\ feature_cols' = IF BundleKeys \subseteq DOMAIN modelFile.obj
                               THEN modelFile.obj.feature_cols ELSE Unbound
    /\ phase' = IF LoadSucceeds(modelFile) THEN "loaded" ELSE "crashed"
    /\ UNCHANGED << carsCsv, modelFile, ties, routes, inbox, threads, log >>

\* The three @app.route decorators, which run after the load.
RegisterRoutes ==
    /\ phase = "loaded"
    /\ routes' = {"/", "/health", "/predict"}
    /\ phase' = "registered"
    /\ UNCHANGED << carsCsv, modelFile, ties, bundle, clf, encoders, feature_cols,
                    inbox, threads, log >>

\* app.run: the server starts to accept requests.
Run ==
    /\ phase = "registered"
    /\ phase' = "serving"
    /\ UNCHANGED << carsCsv, modelFile, ties, bundle, clf, encoders, feature_cols,
                    routes, inbox, threads, log >>

\* The module globals a handler reads.
Globals == [model |-> clf, encoders |-> encoders]

\* Whether the server dispatches a request to the handler of a route.
Dispatches(route) ==
    /\ phase = "serving"
    /\ inbox # <<>>
    /\ Head(inbox).route = route
    /\ route \in routes

\* POST /predict, handled from arrival to response.
Predict ==
    /\ Dispatches("/predict")
    /\ LET r == RunPredict(Head(inbox).raw, Globals, ties) IN
       log' = Append(log, [request |-> Head(inbox), locals |-> r.locals,
                           response |-> r.response])
    /\ inbox' = Tail(inbox)
    /\ UNCHANGED << carsCsv, modelFile, ties, phase, bundle, clf, encoders,
                    feature_cols, routes, threads >>

\* GET /health
Health ==
    /\ Dispatches("/health")
    /\ log' = Append(log, [request |-> Head(inbox), locals |-> [stage |-> "respond"],
                           response |-> [code |-> 200, status |-> "ok",
                                         endpoints |-> <<"/", "/predict", "/health">>]])
    /\ inbox' = Tail(inbox)
    /\ UNCHANGED << carsCsv, modelFile, ties, phase, bundle, clf, encoders,
                    feature_cols, routes, threads >>

Next ==
    \/ train_and_save
    \/ LoadBundle
    \/ RegisterRoutes
    \/ Run
    \/ Predict
    \/ Health

Spec == Init /\ [][Next]_vars

\* The same service found with any of the files above at MODEL_PATH.
InitFaults ==
    /\ Stopped
    /\ Inputs(FewCsvs, ForeignFiles \cup MismatchedFiles, SequenceWorkloads)

SpecFaults == InitFaults /\ [][Next]_vars

(***************************************************************************)
(* The same handler run by concurrent request threads, one block of        *)
(* statements at a time.                                                   *)
(***************************************************************************)
\* Locals kept in module globals: a thread reads what a lower-numbered
\* thread in flight has bound under the same name.
Local_shared(t, name) ==
    IF \E u \in Threads : u < t /\ name \in DOMAIN threads[u]
    THEN threads[CHOOSE u \in Threads : u < t /\ name \in DOMAIN threads[u]][name]
    ELSE threads[t][name]

\* A local variable of the handler running in thread t.
Local(t, name) == threads[t][name]

\* The except clause of predict: answer 500 and end the request.
Fail(t, exc) ==
    /\ log' = Append(log, [request |-> threads[t].request, locals |-> threads[t],
                           response |-> ErrorResponse(exc)])
    /\ threads' = [threads EXCEPT ![t] = Idle]

\* The server hands the next request to an idle thread.
Accept(t) ==
    /\ Dispatches("/predict")
    /\ threads[t].pc = "idle"
    /\ threads' = [threads EXCEPT ![t] = [pc |-> "get_json", request |-> Head(inbox)]]
    /\ inbox' = Tail(inbox)
    /\ UNCHANGED << carsCsv, modelFile, ties, phase, bundle, clf, encoders,
                    feature_cols, routes, log >>

\* data = request.get_json(force=True)
StepGetJson(t) ==
    /\ threads[t].pc = "get_json"
    /\ LET data == get_json(Local(t, "request").raw) IN
       IF data.ok
       THEN /\ threads' = [threads EXCEPT ![t] =
                 [pc |-> "normalise", request |-> threads[t].request, data |-> data.val]]
            /\ log' = log
       ELSE Fail(t, data.exc)
    /\ UNCHANGED << carsCsv, modelFile, ties, phase, bundle, clf, encoders,
                    feature_cols, routes, inbox >>

\* The "Parse & normalise inputs" block.
StepNormalise(t) ==
    /\ threads[t].pc = "normalise"
    /\ LET nf == Normalise(Local(t, "data")) IN
       IF nf.ok
       THEN /\ threads' = [threads EXCEPT ![t] =
                 [pc |-> "encode", request |-> threads[t].request,
                  data |-> threads[t].data, nf |-> nf.val]]
            /\ log' = log
       ELSE Fail(t, nf.exc)
    /\ UNCHANGED << carsCsv, modelFile, ties, phase, bundle, clf, encoders,
                    feature_cols, routes, inbox >>

\* The "Priority -> feature boosts" and "Encode features" blocks.
StepEncode(t) ==
    /\ threads[t].pc = "encode"
    /\ threads' = [threads EXCEPT ![t] =
          [pc |-> "classify", request |-> threads[t].request,
           data |-> threads[t].data, nf |-> threads[t].nf,
           feature_vector |-> FeatureVector(Globals.encoders, Local(t, "nf"))]]
    /\ UNCHANGED << carsCsv, modelFile, ties, phase, bundle, clf, encoders,
                    feature_cols, routes, inbox, log >>

\* proba = clf.predict_proba(...)[0]; top3_idx = np.argsort(proba)[::-1][:3]
StepClassify(t) ==
    /\ threads[t].pc = "classify"
    /\ LET p == predict_proba(Globals.model, Local(t, "feature_vector")) IN
       IF p.ok
       THEN /\ threads' = [threads EXCEPT ![t] =
                 [pc |-> "respond", request |-> threads[t].request,
                  data |-> threads[t].data, nf |-> threads[t].nf,
                  feature_vector |-> threads[t].feature_vector,
                  proba |-> p.val, top3_idx |-> Top3Idx(p.val, ties)]]
            /\ log' = log
       ELSE Fail(t, p.exc)
    /\ UNCHANGED << carsCsv, modelFile, ties, phase, bundle, clf, encoders,
                    feature_cols, routes, inbox >>

\* The decoding loop and the response.
StepRespond(t) ==
    /\ threads[t].pc = "respond"
    /\ LET cars == Top3Cars(Globals.encoders.recommended_car,
                            Local(t, "proba"), Local(t, "top3_idx")) IN
       IF cars.ok
       THEN /\ log' = Append(log, [request |-> threads[t].request,
                                   locals |-> threads[t],
                                   response |-> SuccessResponse(Local(t, "nf"), cars.val)])
            /\ threads' = [threads EXCEPT ![t] = Idle]
       ELSE Fail(t, cars.exc)
    /\ UNCHANGED << carsCsv, modelFile, ties, phase, bundle, clf, encoders,
                    feature_cols, routes, inbox >>

\* The bodies sent to the concurrent service.
ThreadedRequests ==
    { PredictRequest(NotJson), PredictRequest(EmptyObject),
      PredictRequest(SafetyObject), PredictRequest(NumberObject) }

InitThreaded ==
    /\ Stopped
    /\ Inputs({ Csv(FullColumns, MaxCars, MaxCars, EvenDist(MaxCars)),
                Csv([FullColumns EXCEPT !.body_type = @ \ {s_suv}], 2, 2, EvenDist(2)) },
              {[kind |-> "missing"]},
              SeqsUpTo(ThreadedRequests, MaxRequests))

NextThreaded ==
    \/ train_and_save
    \/ LoadBundle
    \/ RegisterRoutes
    \/ Run
    \/ \E t \in Threads : Accept(t)
    \/ \E t \in Threads : StepGetJson(t)
    \/ \E t \in Threads : StepNormalise(t)
    \/ \E t \in Threads : StepEncode(t)
    \/ \E t \in Threads : StepClassify(t)
    \/ \E t \in Threads : StepRespond(t)

SpecThreaded == InitThreaded /\ [][NextThreaded]_vars

(***************************************************************************)
(* Properties.                                                             *)
(***************************************************************************)
\* The answered POST /predict requests.
PredictLog == { i \in DOMAIN log : log[i].request.route = "/predict" }

\* Those whose handler got as far as a feature vector.
EncodedLog == { i \in PredictLog : log[i].locals.stage \in {"classify", "rank", "respond"} }

\* Those whose classifier call returned a distribution.
RankedLog == { i \in PredictLog : log[i].locals.stage \in {"rank", "respond"} }

\* Those answered with a success response.
SuccessLog == { i \in PredictLog : log[i].response.status = "success" }

\* Those whose body parsed to a JSON object.
ObjectLog ==
    { i \in PredictLog : /\ log[i].request.raw.kind = "json"
                         /\ log[i].request.raw.value.t = "obj" }

Range(q) == { q[i] : i \in DOMAIN q }

\* C1: in the top-3 ranking, of two classes with equal probability the one
\* with the smaller class index comes first.
C1_TiesBySmallerIndex ==
    \A i \in RankedLog :
        LET idx == log[i].locals.top3_idx
            proba == log[i].locals.proba
        IN  \A a, b \in DOMAIN idx :
                (a < b /\ proba[idx[a] + 1] = proba[idx[b] + 1]) => idx[a] < idx[b]

\* C2: a request whose body parsed to an object never ends in an error
\* response, whatever its five fields hold.
C2_FieldsNeverFail ==
    \A i \in ObjectLog : log[i].response.status # "error"

\* A code is right for a value: the value's position in the trained classes,
\* or 0 when the classes do not hold it.
EncodedAs(classes, value, code) ==
    IF value \in Range(classes)
    THEN code \in 0..(Len(classes) - 1) /\ classes[code + 1] = value
    ELSE code = 0

\* Some categorical value of the entry is outside its trained vocabulary.
HasUnknown(e) ==
    \/ e.locals.nf.body_val \notin Range(encoders.body_type)
    \/ e.locals.nf.fuel_val \notin Range(encoders.fuel_type)
    \/ e.locals.nf.budget_val \notin Range(encoders.budget)

\* C3: a value outside the trained vocabulary is encoded as 0 and the request
\* still ends in a success response with a ranked result; a value inside it is
\* encoded as its trained code.
C3_SafeEncode ==
    \A i \in EncodedLog :
        LET e == log[i] IN
        /\ EncodedAs(encoders.body_type, e.locals.nf.body_val, e.locals.feature_vector[1])
        /\ EncodedAs(encoders.fuel_type, e.locals.nf.fuel_val, e.locals.feature_vector[2])
        /\ EncodedAs(encoders.budget, e.locals.nf.budget_val, e.locals.feature_vector[3])
        /\ HasUnknown(e) =>
              /\ e.response.status = "success"
              /\ e.response.code = 200
              /\ Len(e.response.top3) >= 1
              /\ e.response.recommended_car = e.response.top3[1].car

\* A request met the fallback and was answered with a ranking.
C3_Witness ==
    \E i \in SuccessLog :
        /\ log[i].locals.nf.body_val \notin Range(encoders.body_type)
        /\ log[i].locals.feature_vector[1] = 0
        /\ log[i].locals.nf.fuel_val \in Range(encoders.fuel_type)
        /\ log[i].locals.feature_vector[2] > 0

\* The rating tuple the claim documents for a priority string.
DocumentedRatings(priority) ==
    CASE priority = s_safety -> <<9, 7, 7, 7>>
      [] priority = s_comfort -> <<7, 9, 7, 7>>
      [] priority = s_performance -> <<7, 7, 9, 7>>
      [] priority = s_value -> <<7, 7, 7, 9>>
      [] OTHER -> <<8, 8, 8, 8>>

\* C4: the four ratings in the feature vector are the documented tuple of the
\* priority, (8,8,8,8) for "default" and for any other string.
C4_RatingTuple ==
    \A i \in EncodedLog :
        SubSeq(log[i].locals.feature_vector, 5, 8)
            = DocumentedRatings(log[i].locals.nf.priority)

\* A priority outside the five names got the default tuple.
C4_Witness ==
    \E i \in EncodedLog :
        /\ log[i].request.raw.value.fields["priority"] = JStr(s_speed)
        /\ log[i].locals.nf.priority = s_speed
        /\ SubSeq(log[i].locals.feature_vector, 5, 8) = <<8, 8, 8, 8>>

\* C5: top3 has min(3, n) entries, no class index twice, confidences in
\* non-increasing order; a distribution of fewer than 3 classes is answered
\* with success.
C5_Top3Shape ==
    \A i \in RankedLog :
        LET e == log[i]
            n == Len(e.locals.proba)
            idx == e.locals.top3_idx
        IN  /\ e.response.status = "success"
            /\ e.response.code = 200
            /\ Len(e.response.top3) = (IF n < 3 THEN n ELSE 3)
            /\ Len(idx) = Len(e.response.top3)
            /\ \A a, b \in DOMAIN idx : a # b => idx[a] # idx[b]
            /\ \A a \in DOMAIN idx :
                  /\ idx[a] \in 0..(n - 1)
                  /\ e.response.top3[a].confidence = Confidence(e.locals.proba[idx[a] + 1])
            /\ \A a, b \in DOMAIN idx :
                  a < b => e.response.top3[a].confidence >= e.response.top3[b].confidence
            /\ e.response.confidence = e.response.top3[1].confidence

\* A distribution over two classes with unequal probabilities was ranked.
C5_Witness ==
    \E i \in SuccessLog :
        /\ Len(log[i].locals.proba) = 2
        /\ Len(log[i].response.top3) = 2
        /\ log[i].response.top3[1].confidence > log[i].response.top3[2].confidence
        /\ log[i].locals.top3_idx = <<1, 0>>

\* The documented default of each request field.
DocumentedDefault(k) ==
    CASE k = "body" -> s_suv
      [] k = "fuel" -> s_petrol
      [] k = "budget" -> s_10to15
      [] k = "seating" -> s_5Seats
      [] k = "priority" -> s_value

\* A field that is absent, null, or a string of nothing but whitespace.
BlankIn(obj, k) ==
    \/ obj.fields[k].t = "absent"
    \/ obj.fields[k].t = "null"
    \/ obj.fields[k].t = "str" /\ strip(obj.fields[k].v) = <<>>

\* The object with field k set to x.
WithField(obj, k, x) == JObj([obj.fields EXCEPT ![k] = x])

\* C6: a request with a field absent, null or blank is answered as the
\* request that supplies the documented default for that field; {} resolves
\* to suv, petrol, 10l_15l, 5 and the "value" ratings, with success.
C6_BlankIsDefault ==
    \A i \in ObjectLog :
        LET e == log[i]
            obj == e.request.raw.value
        IN  /\ \A k \in Fields :
                 BlankIn(obj, k) =>
                    LET explicit == RunPredict(
                            Json(WithField(obj, k, JStr(DocumentedDefault(k)))),
                            Globals, ties)
                    IN  /\ explicit.response = e.response
                        /\ explicit.locals.stage = e.locals.stage
                        /\ e.locals.stage = "respond" =>
                              /\ explicit.locals.nf = e.locals.nf
                              /\ explicit.locals.feature_vector = e.locals.feature_vector
            /\ e.request.raw = EmptyObject =>
                 /\ e.response.status = "success"
                 /\ e.locals.nf = [body_val |-> s_suv, fuel_val |-> s_petrol,
                                   budget_val |-> s_10l_15l, seating_val |-> 5,
                                   priority |-> s_value]
                 /\ SubSeq(e.locals.feature_vector, 5, 8) = <<7, 7, 7, 9>>

PriorityNames == {s_safety, s_comfort, s_performance, s_value, s_default}

\* The four canonical filters of a success response.
CanonicalFilters(inputs) ==
    /\ inputs.body \in BodyValues
    /\ inputs.fuel \in FuelValues
    /\ inputs.budget \in BudgetValues
    /\ inputs.seating \in {5, 7}

TrimmedLower(str) ==
    /\ str # <<>> => Head(str) \notin Whitespace /\ str[Len(str)] \notin Whitespace
    /\ \A j \in DOMAIN str : str[j] \notin Range(UpperCase)

RequestRaises(raw) ==
    \/ raw.kind # "json"
    \/ raw.value.t # "obj"
    \/ \E k \in Fields :
          /\ raw.value.fields[k].t \notin {"absent", "null", "str"}
          /\ Truthy(raw.value.fields[k])

\* The classifier call raises: the forest was fitted on another width.
ClassifierRaises == clf.n_features # Len(FeatureCols)

\* The decoder call raises: a ranked index that the target encoder lacks.
DecoderRaises(e) ==
    /\ e.locals.stage \in {"rank", "respond"}
    /\ \E a \in DOMAIN e.locals.top3_idx :
          e.locals.top3_idx[a] >= Len(encoders.recommended_car)

Raises(e) ==
    \/ RequestRaises(e.request.raw)
    \/ ClassifierRaises
    \/ DecoderRaises(e)

\* The globals as the load bound them.
LoadedGlobals == [model |-> modelFile.obj.model, encoders |-> modelFile.obj.encoders]

\* The service holds exactly what it unpickled.
BundleIntact ==
    /\ modelFile.kind = "pickle"
    /\ BundleKeys \subseteq DOMAIN modelFile.obj
    /\ bundle = modelFile.obj
    /\ clf = modelFile.obj.model
    /\ encoders = modelFile.obj.encoders
    /\ feature_cols = modelFile.obj.feature_cols

C9_RequestsIndependent ==
    /\ phase = "serving" => BundleIntact
    /\ \A i \in PredictLog :
          log[i].response = predict(log[i].request.raw, LoadedGlobals, ties)
    /\ \A i, j \in PredictLog :
          log[i].request = log[j].request => log[i].response = log[j].response

\* Two different requests in flight at once, one answered while the other
\* was still being handled.
C9_Witness ==
    /\ Len(log) = 1
    /\ log[1].response.status = "success"
    /\ \E t \in Threads :
          /\ threads[t].pc = "respond"
          /\ threads[t].request # log[1].request
          /\ threads[t].nf.priority # log[1].locals.nf.priority

\* C10: the service never registers a route or handles a request unless the
\* bundle file unpickled to a dict with the keys model, encoders and
\* feature_cols; otherwise startup fails first.
C10_NoServiceWithoutBundle ==
    /\ (phase \in {"loaded", "registered", "serving"} \/ routes # {} \/ log # <<>>)
          => BundleIntact
    /\ phase = "crashed" =>
          /\ ~(modelFile.kind = "pickle" /\ BundleKeys \subseteq DOMAIN modelFile.obj)
          /\ routes = {}
          /\ log = <<>>

\* Startup failed on a pickled dict that lacks a key, with requests waiting.
C10_Witness ==
    /\ phase = "crashed"
    /\ modelFile.kind = "pickle"
    /\ "encoders" \notin DOMAIN modelFile.obj
    /\ routes = {}
    /\ inbox # <<>>

====
